---- MODULE Spec2Model ----
(***************************************************************************)
(* State-machine model of the polysat solver core (math/polysat):          *)
(* the trail, viable sets, watch lists, boolean assignment, conflict core  *)
(* and the check_sat search loop, over linear polynomials in Z/2^Width.    *)
(***************************************************************************)
EXTENDS Integers, Sequences, FiniteSets, TLC

\* ------------------------------------------------------------------ bounds
Width     == 2      \* bit-width of every variable added by add_var
MaxVars   == 2      \* add_var calls
MaxAdds   == 2      \* add_ule / add_ult calls
MaxScopes == 2      \* push calls
MaxChecks == 2      \* check_sat calls
MaxVarsWide == 3    \* add_var calls of the runs with a three-variable constraint
FiWidth    == 3     \* bit-width of the variable whose forbidden intervals are covered
MaxRecords == 3     \* forbidden intervals handed to find_covering_sequence
MaxConflict == 3    \* conflicting constraints handed to forbidden_intervals::explain
MaxLemmaLevel == 1  \* storage levels 0 .. MaxLemmaLevel of those constraints

Modulus == 2 ^ Width
Values  == 0 .. (Modulus - 1)
\* 32-bit 'unsigned' arithmetic of the source, in two's complement: the unsigned
\* value u >= 2^31 is represented by the negative integer u - 2^32
USub(a, b) == a - b
UAdd(a, b) == a + b
ULe(a, b)  == IF (a < 0) = (b < 0) THEN a <= b ELSE b < 0
UPos(a)    == a # 0

\* ------------------------------------------------------------ sequences
Last(q)  == q[Len(q)]
Front(q) == SubSeq(q, 1, Len(q) - 1)
Range(q) == { q[i] : i \in 1 .. Len(q) }
Contains(q, x) == \E i \in 1 .. Len(q) : q[i] = x
SetAt(q, i, x) == [q EXCEPT ![i] = x]

\* ---------------------------------------------------------- polynomials
\* a linear polynomial k + co[1]*v1 + co[2]*v2 + ...  (mod Modulus)
Poly(k, cx, cy) == [k |-> k, co |-> <<cx, cy>>]
Poly3(k, cx, cy, cz) == [k |-> k, co |-> <<cx, cy, cz>>]
Coef(p, v) == IF v <= Len(p.co) THEN p.co[v] % Modulus ELSE 0
PolyVars(p) == { v \in 1 .. Len(p.co) : Coef(p, v) # 0 }

\* ascending list of a finite set of naturals
RECURSIVE SortedSeq(_)
SortedSeq(S) ==
    IF S = {} THEN <<>>
    ELSE LET m == CHOOSE x \in S : \A y \in S : x <= y
         IN  <<m>> \o SortedSeq(S \ {m})

FreeVars(p) == SortedSeq(PolyVars(p))

\* ----------------------------------------------------- constraint objects
\* The constraints a client can build over variables 1 (x), 2 (y):
\* ule(lhs, rhs), and eq(lhs) written with rhs = 0.
Objects ==
    << [kind |-> "ule", lhs |-> Poly(0, 1, 0), rhs |-> Poly(0, 0, 0)],   \* x <= 0
       [kind |-> "ule", lhs |-> Poly(0, 1, 0), rhs |-> Poly(0, 0, 1)],   \* x <= y
       [kind |-> "ule", lhs |-> Poly(0, 0, 1), rhs |-> Poly(1, 0, 0)],   \* y <= 1
       [kind |-> "ule", lhs |-> Poly(1, 0, 0), rhs |-> Poly(0, 0, 0)],   \* 1 <= 0
       [kind |-> "eq",  lhs |-> Poly(1, 1, 0), rhs |-> Poly(0, 0, 0)],   \* x + 1 = 0
       [kind |-> "ule", lhs |-> Poly3(0, 1, 1, 0), rhs |-> Poly3(0, 0, 0, 1)],  \* x + y <= z
       [kind |-> "ule", lhs |-> Poly(1, 3, 0), rhs |-> Poly(2, 1, 0)] >>   \* 3x + 1 <= x + 2
\* addresses of constraint objects: every construction allocates a new one
ObjIds == 1 .. MaxAdds

\* signed constraint = (address of the constraint object, polarity); also its boolean literal
SC(c, pos) == [c |-> c, pos |-> pos]
NullLit    == [c |-> 0, pos |-> TRUE]
Neg(sc)    == [c |-> sc.c, pos |-> ~sc.pos]

\* what add_ule (positive), add_ult (negated, operands swapped), add_eq (positive)
\* and add_diseq (negated) can assert, as (index into Objects, polarity):
\*   x <= 0,  0 < x,  x <= y,  y < x,  y <= 1,  1 <= 0,  0 < 1,  x + 1 = 0,  x + 1 # 0
Asserts ==
    { SC(1, TRUE), SC(1, FALSE), SC(2, TRUE), SC(2, FALSE), SC(3, TRUE),
      SC(4, TRUE), SC(4, FALSE), SC(5, TRUE), SC(5, FALSE) }

\* assertions of the runs over three variables:  x + y <= z,  z < x + y,
\* 3x + 1 <= x + 2,  x + 2 < 3x + 1,  1 <= 0
AssertsWide == { SC(6, TRUE), SC(6, FALSE), SC(7, TRUE), SC(7, FALSE), SC(4, TRUE) }

ObjVars(c) == PolyVars(Objects[c].lhs) \cup PolyVars(Objects[c].rhs)

\* ule_constraint::ule_constraint: m_vars = free vars of lhs, then new ones of rhs
\* (eq_constraint::eq_constraint: the free vars of p)
CtorVars(c) ==
    LET l == FreeVars(Objects[c].lhs)
        r == FreeVars(Objects[c].rhs)
    IN  l \o SelectSeq(r, LAMBDA v : ~Contains(l, v))

\* clauses
Clause(lits, lvl, jv) == [lits |-> lits, level |-> lvl, jvar |-> jv]
NoClause == Clause(<<>>, 0, 0)

\* --------------------------------------------------------------- state
VARIABLES
    pc,                 \* "idle", "running" (inside check_sat), "aborted", "ub"
    result,             \* answer of the last finished check_sat ("none" before)
    m_level, m_base_levels,
    m_trail, m_search, m_qhead, m_qhead_trail,
    m_viable, m_viable_trail, m_cjust, m_cjust_trail,
    m_value, m_justification, m_watch, m_free_vars,
    m_original, m_redundant, m_redundant_clauses,
    m_conflict,         \* conflict core
    m_constraints,      \* constraint store with the boolean assignment (m_bvars)
    m_stats,
    hist,               \* history of the client's calls (observation only)
    undo,               \* what each push_level saw, what each pop_levels left (observation only)
    fi                  \* a call of find_covering_sequence or of forbidden_intervals::explain:
                        \* its arguments and its result

solverVars ==
    << m_level, m_base_levels, m_trail, m_search, m_qhead, m_qhead_trail,
       m_viable, m_viable_trail, m_cjust, m_cjust_trail, m_value,
       m_justification, m_watch, m_free_vars, m_original, m_redundant,
       m_redundant_clauses, m_conflict, m_constraints >>

vars == << pc, result, solverVars, m_stats, hist, undo, fi >>

\* what the last try_explain of a call computed (r) and returned (ret)
NotExplained == [called |-> FALSE, r |-> "l_undef", ret |-> FALSE]

\* the solver object as one record
St ==
    [ halt |-> IF pc \in {"aborted", "ub"} THEN pc ELSE "",
      level |-> m_level, base_levels |-> m_base_levels,
      trail |-> m_trail, search |-> m_search, qhead |-> m_qhead,
      qhead_trail |-> m_qhead_trail,
      viable |-> m_viable, viable_trail |-> m_viable_trail,
      cjust |-> m_cjust, cjust_trail |-> m_cjust_trail,
      value |-> m_value, just |-> m_justification, watch |-> m_watch,
      free |-> m_free_vars,
      original |-> m_original, redundant |-> m_redundant,
      redundant_clauses |-> m_redundant_clauses,
      conflict |-> m_conflict, cons |-> m_constraints, stats |-> m_stats,
      undo |-> [undo EXCEPT !.popped = <<>>, !.stacked = FALSE,
                             !.explained = NotExplained, !.again = FALSE] ]

\* justification
Unassigned       == [kind |-> "unassigned", level |-> 0]
Decision(l)      == [kind |-> "decision", level |-> l]
Propagation(l)   == [kind |-> "propagation", level |-> l]

\* search items
ItemVar(v, val) == [isvar |-> TRUE, var |-> v, val |-> val, lit |-> NullLit]
ItemLit(lit)    == [isvar |-> FALSE, var |-> 0, val |-> 0, lit |-> lit]

\* an address of the constraint store: def = 0 means never allocated, otherwise
\* def is the index into Objects; level < 0 means the object has been released
FreeSlot(c) ==
    [def |-> 0, level |-> -1, vars |-> <<>>, val |-> "undef", blevel |-> 0,
     reason |-> NoClause, lemma |-> NoClause]

\* the constraint object behind a signed constraint
Obj(s, sc) == Objects[s.cons[sc.c].def]

EmptyCore == [cs |-> <<>>, cvar |-> 0, bailout |-> FALSE, needs_model |-> FALSE]

ZeroStats ==
    [decisions |-> 0, propagations |-> 0, conflicts |-> 0, iterations |-> 0,
     bailouts |-> 0]

\* no call of find_covering_sequence is under way
NoCover ==
    [phase |-> "none", records |-> <<>>, longest_i |-> 0, ok |-> FALSE, seq |-> <<>>,
     closed |-> FALSE, cut |-> FALSE]

SolverInit ==
    /\ pc = "idle" /\ result = "none"
    /\ m_level = 0 /\ m_base_levels = <<>>
    /\ m_trail = <<>> /\ m_search = <<>> /\ m_qhead = 0 /\ m_qhead_trail = <<>>
    /\ m_viable = <<>> /\ m_viable_trail = <<>>
    /\ m_cjust = <<>> /\ m_cjust_trail = <<>>
    /\ m_value = <<>> /\ m_justification = <<>> /\ m_watch = <<>>
    /\ m_free_vars = {}
    /\ m_original = <<>> /\ m_redundant = <<>> /\ m_redundant_clauses = <<>>
    /\ m_conflict = EmptyCore
    /\ m_constraints = [c \in ObjIds |-> FreeSlot(c)]
    /\ m_stats = ZeroStats
    /\ hist = [vars |-> 0, adds |-> 0, pushes |-> 0, checks |-> 0, scopes |-> <<>>,
               asserted |-> <<>>, op |-> "init", step |-> "none", snap |-> <<>>]
    /\ undo = [snaps |-> <<>>, popped |-> <<>>, excl |-> {}, stacked |-> FALSE,
               explained |-> NotExplained, done |-> 0, again |-> FALSE]

Init == SolverInit /\ fi = NoCover

\* ------------------------------------------------------ basic queries
IsAssigned(s, v)  == s.just[v].kind # "unassigned"
IsConflict(s)     == s.conflict.cs # <<>> \/ s.conflict.cvar # 0
BaseLevel(s)      == IF s.base_levels = <<>> THEN 0 ELSE Last(s.base_levels)
AtBaseLevel(s)    == s.level = BaseLevel(s)

\* variant: keeps propagating while a conflict is pending
CanPropagateOnConflict(s) == s.qhead < Len(s.search)

CanPropagate(s)   == s.qhead < Len(s.search) /\ ~IsConflict(s)

CanDecide(s)      == s.free # {}
NumVars(s)        == Len(s.value)

\* boolean value of a literal under m_bvars
BValue(s, lit) ==
    LET b == s.cons[lit.c].val
    IN  IF b = "undef" THEN "undef"
        ELSE IF (b = "true") = lit.pos THEN "true" ELSE "false"

\* pdd::subst_val over the integer assignment on the search stack
SubstVal(s, p) ==
    LET as == { v \in PolyVars(p) : v <= NumVars(s) /\ IsAssigned(s, v) }
        RECURSIVE Sum(_)
        Sum(S) == IF S = {} THEN 0
                  ELSE LET v == CHOOSE x \in S : TRUE
                       IN  Coef(p, v) * s.value[v] + Sum(S \ {v})
    IN  [k  |-> (p.k + Sum(as)) % Modulus,
         co |-> [v \in 1 .. Len(p.co) |-> IF v \in as THEN 0 ELSE p.co[v]]]
IsVal(p)       == PolyVars(p) = {}
IsUnilinear(p) == Cardinality(PolyVars(p)) = 1
TopVar(p)      == CHOOSE v \in PolyVars(p) : TRUE

\* ule_constraint::is_always_false(lhs, rhs) for the given sign; an equality
\* p = 0 is held as p against 0, and p <=u 0 exactly when p = 0
IsAlwaysFalse(sc, p, q) ==
    IF sc.pos THEN IsVal(p) /\ IsVal(q) /\ ~(p.k <= q.k)
    ELSE IsVal(p) /\ IsVal(q) /\ ~(p.k > q.k)

IsCurrentlyFalse(s, sc) ==
    IsAlwaysFalse(sc, SubstVal(s, Obj(s, sc).lhs), SubstVal(s, Obj(s, sc).rhs))

IsCurrentlyTrue(s, sc) ==
    LET p == SubstVal(s, Obj(s, sc).lhs)
        q == SubstVal(s, Obj(s, sc).rhs)
    IN  IF sc.pos THEN IsVal(p) /\ IsVal(q) /\ p.k <= q.k
        ELSE IsVal(p) /\ IsVal(q) /\ p.k > q.k

\* ------------------------------------------------------------ viable sets
HasViable(s, v)     == s.viable[v] # {}
IsViable(s, v, val) == val \in s.viable[v]

\* dd::find_t of find_viable
FindKind(s, v) ==
    IF s.viable[v] = {} THEN "empty"
    ELSE IF Cardinality(s.viable[v]) = 1 THEN "singleton" ELSE "multiple"

\* 'stacked' notes a set_conflict that found the core non-empty
SetConflictC(s, sc) ==
    [s EXCEPT !.conflict.cs = Append(@, sc), !.conflict.needs_model = TRUE,
              !.undo.stacked = @ \/ IsConflict(s)]

SetConflictV(s, v) ==
    [s EXCEPT !.conflict.cvar = v, !.undo.stacked = @ \/ IsConflict(s)]

PushViable(s, v) ==
    [s EXCEPT !.viable_trail = Append(@, [var |-> v, set |-> s.viable[v]])]

\* an intersection that records the old set and removes nothing
IntersectViableKeepsAll(s, v, vals) == PushViable(s, v)

IntersectViable(s, v, vals) ==
    LET s1 == PushViable(s, v)
        s2 == [s1 EXCEPT !.viable[v] = @ \cap vals]
    IN  IF s2.viable[v] = {} THEN SetConflictV(s2, v) ELSE s2

AddNonViable(s, v, val) == IntersectViable(s, v, Values \ {val})

PushQhead(s) ==
    [s EXCEPT !.trail = Append(@, "qhead_i"), !.qhead_trail = Append(@, s.qhead)]

PopQhead(s) ==
    [s EXCEPT !.qhead = Last(s.qhead_trail), !.qhead_trail = Front(@)]

PushCjust(s, v, sc) ==
    [s EXCEPT !.cjust[v] = Append(@, sc), !.trail = Append(@, "just_i"),
              !.cjust_trail = Append(@, v)]

\* ------------------------------------------------------------ assignment
AssignCore(s, v, val, j) ==
    [s EXCEPT !.stats.decisions    = IF j.kind = "decision" THEN @ + 1 ELSE @,
              !.stats.propagations = IF j.kind = "decision" THEN @ ELSE @ + 1,
              !.value[v] = val,
              !.search = Append(@, ItemVar(v, val)),
              !.trail = Append(@, "assign_i"),
              !.just[v] = j]

\* solver::propagate(pvar v, rational const& val, signed_constraint c)
PropagateVal(s, v, val, sc) ==
    IF IsViable(s, v, val)
    THEN AssignCore([s EXCEPT !.free = @ \ {v}], v, val, Propagation(s.level))
    ELSE SetConflictC(s, sc)

\* -------------------------------------------------------------- narrowing
\* the comparison of the two sides without reduction modulo 2^w
UleSetNoWrap(pos, a, b, c, d) ==
    { x \in Values : pos = ((a * x + b) <= (c * x + d)) }

\* predicate  a*x + b <=u c*x + d  (sign applied) as a set of values of x
UleSet(pos, a, b, c, d) ==
    { x \in Values : pos = (((a * x + b) % Modulus) <= ((c * x + d) % Modulus)) }

\* ule_constraint::narrow
NarrowSet(s, sc, v) ==
    IF FindKind(s, v) = "singleton"
    THEN PropagateVal(s, v, CHOOSE x \in s.viable[v] : TRUE, sc)
    ELSE s

\* the three shapes narrow recognises: 1 = both sides unilinear in the same
\* variable, 2 = a*x + b <=u d, 3 = b <=u c*x + d, 0 = none
NarrowShape(p, q) ==
    IF IsUnilinear(p) /\ IsUnilinear(q) /\ TopVar(p) = TopVar(q) THEN 1
    ELSE IF IsUnilinear(p) /\ IsVal(q) THEN 2
    ELSE IF IsVal(p) /\ IsUnilinear(q) THEN 3
    ELSE 0

NarrowVar(s, sc, p, q, shape, v) ==
    IF shape = 0 THEN s
    ELSE NarrowSet(IntersectViable(PushCjust(s, v, sc), v,
                                   UleSet(sc.pos,
                                          IF shape \in {1, 2} THEN Coef(p, v) ELSE 0, p.k,
                                          IF shape \in {1, 3} THEN Coef(q, v) ELSE 0, q.k)),
                   sc, v)

NarrowPQ(s, sc, p, q) ==
    IF IsAlwaysFalse(sc, p, q) THEN SetConflictC(s, sc)
    ELSE IF IsVal(p) /\ IsVal(q) THEN s
    ELSE NarrowVar(s, sc, p, q, NarrowShape(p, q),
                   IF IsVal(p) THEN (IF IsVal(q) THEN 0 ELSE TopVar(q)) ELSE TopVar(p))

\* ule_constraint::narrow
Narrow(s, sc) ==
    NarrowPQ(s, sc, SubstVal(s, Obj(s, sc).lhs), SubstVal(s, Obj(s, sc).rhs))

\* ------------------------------------------------------------ watch lists
AddWatchAt(s, sc, v) == [s EXCEPT !.watch[v] = Append(@, sc)]

AddWatch(s, sc) ==
    LET vs == s.cons[sc.c].vars
        s1 == IF Len(vs) > 0 THEN AddWatchAt(s, sc, vs[1]) ELSE s
    IN  IF Len(vs) > 1 THEN AddWatchAt(s1, sc, vs[2]) ELSE s1

\* erase_watch(pvar, c): first occurrence is overwritten by the last entry;
\* m_watch[v] of a variable that del_var has removed is an out-of-range read
EraseWatchAt(s, v, sc) ==
    IF v = 0 THEN s
    ELSE IF v > Len(s.watch) THEN [s EXCEPT !.halt = "ub"]
    ELSE
    LET w == s.watch[v]
    IN  IF ~Contains(w, sc) THEN s
        ELSE LET i == CHOOSE k \in 1 .. Len(w) :
                          w[k] = sc /\ \A m \in 1 .. (k - 1) : w[m] # sc
             IN  [s EXCEPT !.watch[v] = Front(SetAt(w, i, Last(w)))]

\* an erase that only visits the first watched variable
EraseWatchFirstOnly(s, sc) ==
    LET vs == s.cons[sc.c].vars
    IN  IF Len(vs) > 0 THEN EraseWatchAt(s, vs[1], sc) ELSE s

EraseWatch(s, sc) ==
    LET vs == s.cons[sc.c].vars
        s1 == IF Len(vs) > 0 THEN EraseWatchAt(s, vs[1], sc) ELSE s
    IN  IF Len(vs) > 1 THEN EraseWatchAt(s1, vs[2], sc) ELSE s1

ActivateConstraint(s, sc) == Narrow(AddWatch(s, sc), sc)

\* variant that leaves the watch lists alone
DeactivateKeepsWatch(s, sc) == s

DeactivateConstraint(s, sc) == EraseWatch(s, sc)

\* ------------------------------------------------------------ propagation
\* ule_constraint::propagate(solver&, pvar): result and "watch moved" flag
UlePropagate(s, sc, v) ==
    LET vs  == s.cons[sc.c].vars
        idx == IF vs[1] # v THEN 2 ELSE 1
        cand == { i \in 3 .. Len(vs) : ~IsAssigned(s, vs[i]) }
    IN  IF cand # {}
        THEN LET i == CHOOSE k \in cand : \A m \in cand : m <= k
                 nv == [vs EXCEPT ![idx] = vs[i], ![i] = vs[idx]]
             IN  [st |-> [s EXCEPT !.cons[sc.c].vars = nv], moved |-> TRUE]
        ELSE [st |-> Narrow(s, sc), moved |-> FALSE]

\* solver::propagate(pvar v): visit wlist[i..], keeping the entries not moved
RECURSIVE PropagateWatch(_, _, _, _, _)
RECURSIVE PropagateKeep(_, _, _, _, _)
\* a compaction that forgets the entries behind the one that set the conflict
PropagateWatchDropsRest(s, v, wlist, i, kept) ==
    IF i > Len(wlist) \/ IsConflict(s) THEN [s EXCEPT !.watch[v] = kept]
    ELSE PropagateKeep(UlePropagate(s, wlist[i], v), v, wlist, i, kept)

PropagateWatch(s, v, wlist, i, kept) ==
    IF i > Len(wlist) THEN [s EXCEPT !.watch[v] = kept]
    ELSE IF IsConflict(s)
    THEN [s EXCEPT !.watch[v] = kept \o SubSeq(wlist, i, Len(wlist))]
    ELSE PropagateKeep(UlePropagate(s, wlist[i], v), v, wlist, i, kept)

PropagateKeep(r, v, wlist, i, kept) ==
    PropagateWatch(r.st, v, wlist, i + 1,
                   IF r.moved THEN kept ELSE Append(kept, wlist[i]))

PropagateVar(s, v) == PropagateWatch(s, v, s.watch[v], 1, <<>>)

\* solver::propagate(sat::literal lit)
PropagateLit(s, lit) == ActivateConstraint(s, lit)

\* undo.done is the length of the prefix of the search stack whose items have
\* been propagated since they were pushed; 'again' notes a second propagation
NotePropagated(s, i) ==
    [s EXCEPT !.undo.again = @ \/ i <= s.undo.done,
              !.undo.done  = IF i > @ THEN i ELSE @]

\* items popped off the search stack are forgotten
DropPropagated(s) ==
    [s EXCEPT !.undo.done = IF @ > Len(s.search) THEN Len(s.search) ELSE @]

RECURSIVE PropagateLoop(_)
PropagateLoop(s) ==
    IF ~CanPropagate(s) THEN s
    ELSE LET item == s.search[s.qhead + 1]
             s1 == NotePropagated([s EXCEPT !.qhead = @ + 1], s.qhead + 1)
         IN  PropagateLoop(IF item.isvar THEN PropagateVar(s1, item.var)
                           ELSE PropagateLit(s1, item.lit))

\* solver::propagate()
Propagate(s) == PropagateLoop(PushQhead(s))

\* ------------------------------------------------------ levels and undo
Halt(s, h) == [s EXCEPT !.halt = h]

\* what a level is expected to come back to when it is popped
LevelSnap(s) ==
    [level |-> s.level, just |-> s.just, search |-> s.search, cjust |-> s.cjust,
     qhead |-> s.qhead, viable |-> s.viable]

PushLevel(s) ==
    [s EXCEPT !.level = @ + 1,
              !.trail = Append(@, "inc_level_i"),
              !.undo.snaps = Append(SubSeq(@, 1, s.level), LevelSnap(s))]

DelVar(s) ==
    LET v == Len(s.value)
    IN  [s EXCEPT !.viable = Front(@), !.cjust = Front(@), !.value = Front(@),
                  !.just = Front(@), !.watch = Front(@), !.free = @ \ {v}]

\* bool_var_manager::unassign
UnassignBool(s, lit) ==
    [s EXCEPT !.cons[lit.c].val = "undef",
              !.cons[lit.c].reason = NoClause,
              !.cons[lit.c].lemma = NoClause]

\* one iteration of the switch in pop_levels, without the trailing m_trail.pop_back()
UndoEntry(s, target) ==
    LET e == Last(s.trail)
    IN  CASE e = "qhead_i"  -> [st |-> PopQhead(s), replay |-> <<>>]
          [] e = "add_var_i" -> [st |-> DelVar(s), replay |-> <<>>]
          [] e = "inc_level_i" -> [st |-> [s EXCEPT !.level = @ - 1], replay |-> <<>>]
          [] e = "viable_i" ->
                [st |-> [s EXCEPT !.viable[Last(s.viable_trail).var] = Last(s.viable_trail).set,
                                  !.viable_trail = Front(@)],
                 replay |-> <<>>]
          [] e = "assign_i" ->
                LET v == Last(s.search).var
                IN  [st |-> [s EXCEPT !.free = @ \cup {v}, !.just[v] = Unassigned,
                                      !.search = Front(@)],
                     replay |-> <<>>]
          [] e = "assign_bool_i" ->
                LET lit == Last(s.search).lit
                IN  IF ULe(s.cons[lit.c].level, target)
                    THEN [st |-> [s EXCEPT !.search = Front(@)], replay |-> <<lit>>]
                    ELSE [st |-> [UnassignBool(DeactivateConstraint(s, lit), lit)
                                    EXCEPT !.search = Front(@)],
                          replay |-> <<>>]
          [] e = "just_i" ->
                LET v == Last(s.cjust_trail)
                IN  [st |-> [s EXCEPT !.cjust[v] = Front(@), !.cjust_trail = Front(@)],
                     replay |-> <<>>]

\* the while loop of pop_levels; reading back() of an empty trail is undefined
RECURSIVE UndoLoop(_, _, _, _)
RECURSIVE UndoNext(_, _, _, _)
UndoLoop(s, num, replay, target) ==
    IF ~UPos(num) \/ s.halt # "" THEN [st |-> s, replay |-> replay]
    ELSE IF s.trail = <<>> THEN [st |-> Halt(s, "ub"), replay |-> replay]
    ELSE UndoNext(UndoEntry(s, target),
                  IF Last(s.trail) = "inc_level_i" THEN num - 1 ELSE num,
                  replay, target)

UndoNext(r, num, replay, target) ==
    UndoLoop([r.st EXCEPT !.trail = Front(@)], num, replay \o r.replay, target)

\* solver::invariant(signed_constraints const&)
Sorted(s, cs) ==
    \A i \in 1 .. (Len(cs) - 1) : s.cons[cs[i].c].level <= s.cons[cs[i + 1].c].level

RECURSIVE PopOriginal(_)
PopOriginal(s) ==
    IF s.halt = "" /\ s.original # <<>> /\ s.cons[Last(s.original).c].level > s.level
    THEN PopOriginal([DeactivateConstraint(s, Last(s.original)) EXCEPT !.original = Front(@)])
    ELSE s

RECURSIVE PopRedundant(_)
PopRedundant(s) ==
    IF s.halt = "" /\ s.redundant # <<>> /\ s.cons[Last(s.redundant).c].level > s.level
    THEN PopRedundant([DeactivateConstraint(s, Last(s.redundant)) EXCEPT !.redundant = Front(@)])
    ELSE s

\* pop_constraints(m_original); pop_constraints(m_redundant)
PopRedundantChecked(s) ==
    IF s.halt # "" THEN s
    ELSE IF ~Sorted(s, s.redundant) THEN Halt(s, "aborted")
    ELSE PopRedundant(s)

PopConstraints(s) ==
    IF ~Sorted(s, s.original) THEN Halt(s, "aborted")
    ELSE PopRedundantChecked(PopOriginal(s))

\* a release_level that also frees the level below lvl
ReleaseLevelAndBelow(s, lvl) ==
    [s EXCEPT !.cons = [c \in ObjIds |->
                          IF s.cons[c].level >= lvl - 1
                          THEN [FreeSlot(c) EXCEPT !.def = s.cons[c].def,
                                                   !.vars = s.cons[c].vars]
                          ELSE s.cons[c]]]

\* constraint_manager::release_level: objects stored at lvl or above are freed
ReleaseLevel(s, lvl) ==
    [s EXCEPT !.cons = [c \in ObjIds |->
                          IF s.cons[c].level >= lvl
                          THEN [FreeSlot(c) EXCEPT !.def = s.cons[c].def,
                                                   !.vars = s.cons[c].vars]
                          ELSE s.cons[c]]]

\* replay loop at the end of pop_levels (last pushed first)
RECURSIVE Replay(_, _, _)
Replay(s, replay, j) ==
    IF j = 0 THEN s
    ELSE LET c == replay[j]
             s1 == [s EXCEPT !.trail = Append(@, "assign_bool_i"),
                             !.search = Append(@, ItemLit(c))]
         IN  Replay(Narrow(s1, c), replay, j - 1)

\* record how the state left by pop_levels compares with what push_level saw
NotePopped(s, target, replay) ==
    IF target < 0 \/ target + 1 > Len(s.undo.snaps) THEN s
    ELSE LET w == s.undo.snaps[target + 1]
         IN  [s EXCEPT !.undo.snaps = SubSeq(@, 1, target),
                       !.undo.popped =
                           << [to     |-> target,
                               replay |-> replay,
                               level  |-> s.level = w.level,
                               just   |-> s.just = w.just,
                               search |-> s.search = w.search,
                               cjust  |-> s.cjust = w.cjust,
                               qhead  |-> s.qhead = w.qhead,
                               viable |-> s.viable = w.viable] >>]

\* exclusions made at levels that no longer exist are forgotten
DropExcluded(s) == [s EXCEPT !.undo.excl = { e \in @ : e.lvl <= s.level }]

PopLevelsReplay(s, replay, target) ==
    IF s.halt # "" THEN s
    ELSE NotePopped(Replay(ReleaseLevel(DropPropagated(DropExcluded(s)), s.level + 1),
                           replay, Len(replay)),
                    target, replay)

PopLevelsEnd(r, target) ==
    IF r.st.halt # "" THEN r.st
    ELSE PopLevelsReplay(PopConstraints(r.st), r.replay, target)

PopLevels(s, num_levels) ==
    PopLevelsEnd(UndoLoop(s, num_levels, <<>>, USub(s.level, num_levels)),
                 USub(s.level, num_levels))

Backjump(s, new_level) ==
    LET num_levels == USub(s.level, new_level)
    IN  IF UPos(num_levels) THEN PopLevels(s, num_levels) ELSE s

\* ----------------------------------------------------- boolean assignment
\* bool_var_manager::assign + trail/search entries of solver::assign_bool
AssignBool(s, lit, reason, lemma) ==
    [s EXCEPT !.cons[lit.c].val = IF lit.pos THEN "true" ELSE "false",
              !.cons[lit.c].blevel = s.level,
              !.cons[lit.c].reason = reason,
              !.cons[lit.c].lemma = lemma,
              !.trail = Append(@, "assign_bool_i"),
              !.search = Append(@, ItemLit(lit))]

PropagateBool(s, lit, reason) == AssignBool(s, lit, reason, NoClause)

\* solver::decide_bool(sat::literal, clause&)
DecideBoolLit(s, lit, lemma) == AssignBool(PushLevel(s), lit, NoClause, lemma)

IsBoolDecision(s, c) == s.cons[c].val # "undef" /\ s.cons[c].reason = NoClause

\* ---------------------------------------------------------------- decide
\* variant that returns the hint without looking at the viable set
FindViableHintOnly(s, v, pick) == s.value[v]

\* find_viable: the hint m_value[v] when it is viable, otherwise the value 'pick'
FindViable(s, v, pick) ==
    IF s.value[v] \in s.viable[v] THEN s.value[v]
    ELSE IF pick \in s.viable[v] THEN pick
    ELSE CHOOSE x \in s.viable[v] : TRUE

\* the values find_viable can return for v
Picks(s, v) ==
    IF s.viable[v] = {} THEN {0}
    ELSE IF s.value[v] \in s.viable[v] THEN {s.value[v]}
    ELSE s.viable[v]

\* a decide that assigns its decision without opening a level
DecideNoLevel(s, v, pick) ==
    LET k == FindKind(s, v)
    IN  CASE k = "empty" -> SetConflictV([s EXCEPT !.free = @ \cup {v}], v)
          [] k = "singleton" ->
                AssignCore(s, v, FindViable(s, v, pick), Propagation(s.level))
          [] k = "multiple" ->
                AssignCore(s, v, FindViable(s, v, pick), Decision(s.level))

\* solver::decide(pvar v), after next_var() has taken v out of the queue
\* variant: an empty viable set leaves v out of the free-variable queue
DecideDropsVar(s, v, pick) ==
    LET k == FindKind(s, v)
    IN  CASE k = "empty" -> SetConflictV(s, v)
          [] k = "singleton" ->
                AssignCore(s, v, FindViable(s, v, pick), Propagation(s.level))
          [] k = "multiple" ->
                LET s1 == PushLevel(s)
                IN  AssignCore(s1, v, FindViable(s1, v, pick), Decision(s1.level))

Decide(s, v, pick) ==
    LET k == FindKind(s, v)
    IN  CASE k = "empty" -> SetConflictV([s EXCEPT !.free = @ \cup {v}], v)
          [] k = "singleton" ->
                AssignCore(s, v, FindViable(s, v, pick), Propagation(s.level))
          [] k = "multiple" ->
                LET s1 == PushLevel(s)
                IN  AssignCore(s1, v, FindViable(s1, v, pick), Decision(s1.level))

\* ------------------------------------------------------------ conflict core
CoreInsert(core, sc) ==
    IF Contains(core.cs, sc) THEN core ELSE [core EXCEPT !.cs = Append(@, sc)]

RECURSIVE CoreInsertAll(_, _, _)
CoreInsertAll(core, cs, i) ==
    IF i > Len(cs) THEN core ELSE CoreInsertAll(CoreInsert(core, cs[i]), cs, i + 1)

\* conversion of an lbool (l_false = -1, l_undef = 0, l_true = 1) to bool
LboolToBool(r) == r # "l_undef"

IsPositiveEqualityOver(s, v, sc) ==
    sc.c # 0 /\ sc.pos /\ Obj(s, sc).kind = "eq" /\ v \in ObjVars(s.cons[sc.c].def)

\* ex_polynomial_superposition::try_explain1: a pair (c1 true, c2 false) of positive
\* equalities over v is needed for a step
TryExplain1(s, v, core) ==
    IF \E c1, c2 \in Range(core.cs) :
          /\ IsPositiveEqualityOver(s, v, c1) /\ IsCurrentlyTrue(s, c1)
          /\ IsPositiveEqualityOver(s, v, c2) /\ IsCurrentlyFalse(s, c2)
    THEN "l_true"
    ELSE "l_false"

\* ex_polynomial_superposition::try_explain: loops while l_undef, returns lbool as bool
TryExplain(s, v, core) == LboolToBool(TryExplain1(s, v, core))

\* conflict_core::resolve_value(v, cjust_v): bring in cjust_v, then try to explain
CoreResolveValue(s, v) ==
    LET core == CoreInsertAll(s.conflict, s.cjust[v], 1)
    IN  [st |-> [s EXCEPT !.conflict = core,
                          !.undo.explained = [called |-> TRUE,
                                              r      |-> TryExplain1(s, v, core),
                                              ret    |-> TryExplain(s, v, core)]],
         ok |-> TryExplain(s, v, core)]

\* solver::resolve_value(pvar v)
ResolveValue(s, v) ==
    IF s.conflict.bailout
    THEN [s EXCEPT !.conflict = CoreInsertAll(s.conflict, s.cjust[v], 1)]
    ELSE LET r == CoreResolveValue(s, v)
         IN  IF r.ok THEN r.st
             ELSE [r.st EXCEPT !.stats.bailouts = @ + 1, !.conflict.bailout = TRUE]

\* conflict_core::resolve(bool_var, clause): boolean resolution with the reason
CoreResolveBool(core, var, other) ==
    LET rest == SelectSeq(core.cs, LAMBDA c : c.c # var)
        add  == SelectSeq(other.lits, LAMBDA l : l.c # var)
        negs == [i \in 1 .. Len(add) |-> Neg(add[i])]
    IN  CoreInsertAll([core EXCEPT !.cs = rest], negs, 1)

ResolveBool(s, lit) ==
    [s EXCEPT !.conflict = CoreResolveBool(s.conflict, lit.c, s.cons[lit.c].reason)]

\* conflict_core::build_lemma(lvl).build(): negations of the core's constraints
NegateAll(cs, lvl) ==
    IF cs = <<>> THEN NoClause
    ELSE Clause([i \in 1 .. Len(cs) |-> Neg(cs[i])], lvl, 0)

BuildLemma(core, lvl) == NegateAll(SelectSeq(core.cs, LAMBDA c : c.c # 0), lvl)

MarkedVars(s) ==
    (IF s.conflict.cvar # 0 THEN {s.conflict.cvar} ELSE {})
    \cup UNION { Range(s.cons[c.c].vars) : c \in { x \in Range(s.conflict.cs) : x.c # 0 } }

MarkedBVars(s) == { c.c : c \in { x \in Range(s.conflict.cs) : x.c # 0 } }

\* ------------------------------------------------------------- lemmas
\* solver::insert_constraint: push back, then sink below entries of higher level
RECURSIVE SinkByLevel(_, _, _)
SinkByLevel(s, cs, i) ==
    IF i = 0 THEN cs
    ELSE IF s.cons[cs[i + 1].c].level >= s.cons[cs[i].c].level THEN cs
    ELSE SinkByLevel(s, [cs EXCEPT ![i] = cs[i + 1], ![i + 1] = cs[i]], i - 1)

InsertConstraint(s, cs, sc) == SinkByLevel(s, Append(cs, sc), Len(cs))

AddLemma(s, lemma) ==
    IF lemma = NoClause THEN s
    ELSE LET s1 == [s EXCEPT !.redundant_clauses = Append(@, lemma)]
         IN  IF Len(lemma.lits) = 1
             THEN [s1 EXCEPT !.redundant = InsertConstraint(s1, @, lemma.lits[1])]
             ELSE s1

\* is_suitable of decide_bool(clause&)
IsSuitable(s, lit) ==
    IF BValue(s, lit) = "false" THEN FALSE ELSE ~IsCurrentlyFalse(s, lit)

\* solver::decide_bool(clause& lemma)
DecideBool(s, lemma) ==
    LET ok == { i \in 1 .. Len(lemma.lits) : IsSuitable(s, lemma.lits[i]) }
    IN  IF ok = {} THEN Halt(s, "aborted")          \* NOT_IMPLEMENTED_YET()
        ELSE LET choice == lemma.lits[CHOOSE i \in ok : \A k \in ok : i <= k]
                 s1 == PushCjust(s, lemma.jvar, choice)
             IN  IF Cardinality(ok) = 1 THEN PropagateBool(s1, choice, lemma)
                 ELSE DecideBoolLit(s1, choice, lemma)

LearnLemma(s, v, lemma) ==
    IF lemma = NoClause THEN s
    ELSE LET l == [lemma EXCEPT !.jvar = v]
         IN  DecideBool(AddLemma(s, l), l)

\* ------------------------------------------------------ conflict resolution
ReportUnsat(s) == Backjump(s, BaseLevel(s))

RevertDecide(s, v, pick) ==
    IF s.halt # "" \/ IsConflict(s) THEN s
    ELSE IF s.just[v].kind = "unassigned"
    THEN Decide([s EXCEPT !.free = @ \ {v}], v, pick)
    ELSE s

\* record that revert_decision has excluded val from the viable set of v at this level
NoteExcluded(s, v, val) ==
    [s EXCEPT !.undo.excl = @ \cup {[var |-> v, val |-> val, lvl |-> s.level]}]

RevertLearn(s, v, val, lemma, pick) ==
    IF s.halt # "" THEN s
    ELSE RevertDecide(LearnLemma(NoteExcluded(AddNonViable(s, v, val), v, val), v, lemma),
                      v, pick)

RevertDecision(s, v, pick) ==
    RevertLearn(Backjump([s EXCEPT !.conflict = EmptyCore], USub(s.just[v].level, 1)),
                v, s.value[v], BuildLemma(s.conflict, s.just[v].level), pick)

RevertBoolGuess(s, lemma) ==
    IF IsConflict(s) THEN s ELSE DecideBool(s, lemma)

RevertBoolPropagate(s, lit, reason, lemma) ==
    IF s.halt # "" THEN s
    ELSE RevertBoolGuess(PropagateBool(AddLemma(s, reason), Neg(lit), reason), lemma)

RevertBoolReason(b0, lit) ==
    Clause(IF Contains(b0.lits, Neg(lit)) THEN b0.lits ELSE Append(b0.lits, Neg(lit)),
           b0.level, 0)

RevertBoolDecision(s, lit) ==
    RevertBoolPropagate(Backjump([s EXCEPT !.conflict = EmptyCore],
                                 USub(s.cons[lit.c].blevel, 1)),
                        lit,
                        RevertBoolReason(BuildLemma(s.conflict, s.cons[lit.c].blevel), lit),
                        s.cons[lit.c].lemma)

\* the walk over m_search[i-1], i = size .. 1 (marks follow the current core)
RECURSIVE ResolveWalk(_, _, _)
ResolveWalk(s, i, pick) ==
    IF i = 0 THEN ReportUnsat(s)
    ELSE LET item == s.search[i]
         IN  IF item.isvar
             THEN LET v == item.var
                  IN  IF v \notin MarkedVars(s) THEN ResolveWalk(s, i - 1, pick)
                      ELSE IF s.just[v].level <= BaseLevel(s) THEN ReportUnsat(s)
                      ELSE IF s.just[v].kind = "decision" THEN RevertDecision(s, v, pick)
                      ELSE ResolveWalk(ResolveValue(s, v), i - 1, pick)
             ELSE LET lit == item.lit
                  IN  IF lit.c \notin MarkedBVars(s) THEN ResolveWalk(s, i - 1, pick)
                      ELSE IF s.cons[lit.c].blevel <= BaseLevel(s) THEN ReportUnsat(s)
                      ELSE IF IsBoolDecision(s, lit.c) THEN RevertBoolDecision(s, lit)
                      ELSE ResolveWalk(ResolveBool(s, lit), i - 1, pick)

\* solver::resolve_conflict
ResolveConflictVar(s) ==
    IF s.conflict.cvar # 0 THEN ResolveValue(s, s.conflict.cvar) ELSE s

ResolveFromTop(s, pick) == ResolveWalk(s, Len(s.search), pick)

ResolveConflict(s, pick) ==
    ResolveFromTop(ResolveConflictVar([s EXCEPT !.stats.conflicts = @ + 1]), pick)

\* ------------------------------------------------------------ client calls
AddVarOp(s) ==
    LET v == Len(s.value) + 1
    IN  [s EXCEPT !.value = Append(@, 0), !.just = Append(@, Unassigned),
                  !.viable = Append(@, Values), !.cjust = Append(@, <<>>),
                  !.watch = Append(@, <<>>), !.trail = Append(@, "add_var_i"),
                  !.free = @ \cup {v}]

\* address the next construction gets (addresses are not reused)
NextObj(s) == CHOOSE c \in ObjIds : s.cons[c].def = 0 /\ \A k \in 1 .. (c - 1) : s.cons[k].def # 0

\* constraint::eq / constraint::ule: alloc of a new object with a new boolean
\* variable, stored at the current level; d is the index into Objects
MkConstraint(s, d) ==
    [s EXCEPT !.cons[NextObj(s)] =
        [FreeSlot(d) EXCEPT !.def = d, !.level = s.level, !.vars = CtorVars(d)]]

\* a new_constraint that puts the constraint at the front of m_original
NewConstraintAtFront(s, sc) ==
    IF ~AtBaseLevel(s) THEN Halt(s, "aborted")
    ELSE LET unit == Clause(<<sc>>, s.cons[sc.c].level, 0)
             s1 == [s EXCEPT !.original = <<sc>> \o @]
         IN  IF ~IsConflict(s1) THEN PropagateBool(s1, sc, unit) ELSE s1

\* solver::new_constraint(c, dep, activate = true)
NewConstraint(s, sc) ==
    IF ~AtBaseLevel(s) THEN Halt(s, "aborted")        \* VERIFY(at_base_level())
    ELSE LET unit == Clause(<<sc>>, s.cons[sc.c].level, 0)
             s1 == [s EXCEPT !.original = Append(@, sc)]
         IN  IF ~IsConflict(s1) THEN PropagateBool(s1, sc, unit) ELSE s1

\* add_ule / add_ult / add_eq / add_diseq; call = (index into Objects, polarity)
AddOp(s, call) == NewConstraint(MkConstraint(s, call.c), SC(NextObj(s), call.pos))

\* solver::unsat_core: NOT_IMPLEMENTED_YET()
UnsatCoreOp(s) == Halt(s, "aborted")

PushOp(s) ==
    LET s1 == PushLevel(s)
    IN  [s1 EXCEPT !.base_levels = Append(@, s1.level)]

PopReset(s) ==
    IF s.halt # "" THEN s ELSE [s EXCEPT !.conflict = EmptyCore]

PopOp(s, num_scopes) ==
    PopReset(PopLevels(s, UAdd(USub(s.level,
                                    s.base_levels[Len(s.base_levels) - num_scopes + 1]), 1)))

\* ------------------------------------------------------- check_sat loop
\* variant of the chain that never tests at_base_level()
LoopStepNoBase(s) ==
    IF IsConflict(s) THEN "resolve"
    ELSE IF CanPropagate(s) THEN "propagate"
    ELSE IF ~CanDecide(s) THEN "sat"
    ELSE "decide"

\* the if / else-if chain of one iteration of check_sat
LoopStep(s) ==
    IF IsConflict(s) /\ AtBaseLevel(s) THEN "unsat"
    ELSE IF IsConflict(s) THEN "resolve"
    ELSE IF CanPropagate(s) THEN "propagate"
    ELSE IF ~CanDecide(s) THEN "sat"
    ELSE "decide"

\* variant that counts the iteration before the limit is consulted
EnterIterationCounted(s, lim) ==
    [go |-> lim, st |-> [s EXCEPT !.stats.iterations = @ + 1]]

\* m_lim.inc() of the loop condition, then m_stats.m_num_iterations++
EnterIteration(s, lim) ==
    [go |-> lim, st |-> IF lim THEN [s EXCEPT !.stats.iterations = @ + 1] ELSE s]

\* what a client can observe of the solver
Obs(s) ==
    [level |-> s.level, base |-> BaseLevel(s), nvars |-> NumVars(s),
     original |-> s.original,
     assignment |-> [v \in 1 .. NumVars(s) |->
                        IF IsAssigned(s, v) THEN s.value[v] ELSE -1],
     conflict |-> IsConflict(s),
     decisions |-> s.stats.decisions, propagations |-> s.stats.propagations,
     conflicts |-> s.stats.conflicts, bailouts |-> s.stats.bailouts]

\* write the record back to the variables
Commit(s, p, r, h) ==
    /\ pc' = IF s.halt # "" THEN s.halt ELSE p
    /\ result' = r
    /\ hist' = h
    /\ m_level' = s.level /\ m_base_levels' = s.base_levels
    /\ m_trail' = s.trail /\ m_search' = s.search /\ m_qhead' = s.qhead
    /\ m_qhead_trail' = s.qhead_trail
    /\ m_viable' = s.viable /\ m_viable_trail' = s.viable_trail
    /\ m_cjust' = s.cjust /\ m_cjust_trail' = s.cjust_trail
    /\ m_value' = s.value /\ m_justification' = s.just /\ m_watch' = s.watch
    /\ m_free_vars' = s.free
    /\ m_original' = s.original /\ m_redundant' = s.redundant
    /\ m_redundant_clauses' = s.redundant_clauses
    /\ m_conflict' = s.conflict /\ m_constraints' = s.cons
    /\ m_stats' = s.stats /\ undo' = s.undo
    /\ fi' = fi

Called(op) == [hist EXCEPT !.op = op, !.step = "none", !.snap = <<>>]
Stepped(k) == [hist EXCEPT !.op = "step", !.step = k, !.snap = <<>>]

\* ----------------------------------------------------------------- actions
\* The client declares its variables before it asserts or checks anything, and
\* after an "unknown" answer it calls check_sat again before any other call.
Resumed == result # "unknown"

AddVar ==
    /\ pc = "idle" /\ Resumed /\ hist.vars < MaxVars /\ hist.adds = 0 /\ hist.checks = 0
    /\ Commit(AddVarOp(St), "idle", result, [Called("add_var") EXCEPT !.vars = @ + 1])

AddVarWide ==
    /\ pc = "idle" /\ Resumed /\ hist.vars < MaxVarsWide /\ hist.adds = 0 /\ hist.checks = 0
    /\ Commit(AddVarOp(St), "idle", result, [Called("add_var") EXCEPT !.vars = @ + 1])

\* add_ule(p, q) / add_ult(p, q)
Add(sc) ==
    /\ pc = "idle" /\ Resumed /\ hist.adds < MaxAdds
    /\ ObjVars(sc.c) \subseteq 1 .. Len(m_value)
    /\ Commit(AddOp(St, sc), "idle", result,
              [Called("add") EXCEPT !.adds = @ + 1,
                  !.asserted = Append(@, [sc |-> sc, obj |-> NextObj(St),
                                          depth |-> Len(hist.scopes),
                                          after |-> hist.checks])])

Push ==
    /\ pc = "idle" /\ Resumed /\ hist.pushes < MaxScopes
    /\ Commit(PushOp(St), "idle", result,
              [hist EXCEPT !.op = "push", !.step = "none", !.pushes = @ + 1,
                           !.scopes = Append(@, m_level + 1),
                           !.snap = <<Obs(St)>>])

Pop(n) ==
    /\ pc = "idle" /\ Resumed /\ n \in 1 .. Len(hist.scopes)
    /\ Commit(PopOp(St, n), "idle", result,
              [hist EXCEPT !.op = IF hist.op = "push" /\ n = 1 THEN "pushpop" ELSE "pop",
                           !.step = "none",
                           !.scopes = SubSeq(@, 1, Len(@) - n),
                           !.asserted = SelectSeq(@, LAMBDA a : a.depth <= Len(hist.scopes) - n),
                           !.snap = IF hist.op = "push" /\ n = 1 THEN @ ELSE <<>>])

CheckSat ==
    /\ pc = "idle" /\ hist.checks < MaxChecks
    /\ pc' = "running" /\ result' = "none"
    /\ hist' = [Called("check") EXCEPT !.checks = @ + 1]
    /\ UNCHANGED << solverVars, m_stats, undo, fi >>

\* Each step below is one pass through the loop; 'lim' is what m_lim.inc()
\* answers at the top of that pass (false: the resource limit is exhausted).
StepUnknown ==
    /\ pc = "running" /\ ~EnterIteration(St, FALSE).go
    /\ Commit(EnterIteration(St, FALSE).st, "idle", "unknown", Stepped("unknown"))

StepUnsat ==
    /\ pc = "running" /\ EnterIteration(St, TRUE).go
    /\ LoopStep(St) = "unsat"
    /\ Commit(EnterIteration(St, TRUE).st, "idle", "unsat", Stepped("unsat"))

\* unsat_core(deps), called by the client after an unsat answer
UnsatCore ==
    /\ pc = "idle" /\ result = "unsat" /\ hist.op = "step"
    /\ Commit(UnsatCoreOp(St), "idle", result, Called("unsat_core"))

StepResolve ==
    /\ pc = "running" /\ EnterIteration(St, TRUE).go
    /\ LoopStep(St) = "resolve"
    /\ \E pick \in Values :
          Commit(ResolveConflict(EnterIteration(St, TRUE).st, pick), "running", result,
                 Stepped("resolve"))

StepPropagate ==
    /\ pc = "running" /\ EnterIteration(St, TRUE).go
    /\ LoopStep(St) = "propagate"
    /\ Commit(Propagate(EnterIteration(St, TRUE).st), "running", result,
              Stepped("propagate"))

\* decide(): next_var() takes some variable out of the queue
StepDecide ==
    /\ pc = "running" /\ EnterIteration(St, TRUE).go
    /\ LoopStep(St) = "decide"
    /\ \E v \in m_free_vars : \E pick \in Picks(St, v) :
          Commit(Decide([EnterIteration(St, TRUE).st EXCEPT !.free = @ \ {v}], v, pick),
                 "running", result, Stepped("decide"))

StepSat ==
    /\ pc = "running" /\ EnterIteration(St, TRUE).go
    /\ LoopStep(St) = "sat"
    /\ Commit(EnterIteration(St, TRUE).st, "idle", "sat", Stepped("sat"))

Next ==
    \/ AddVar
    \/ \E sc \in Asserts : Add(sc)
    \/ Push
    \/ \E n \in 1 .. MaxScopes : Pop(n)
    \/ CheckSat
    \/ StepUnknown
    \/ StepUnsat
    \/ StepResolve
    \/ StepPropagate
    \/ StepDecide
    \/ StepSat
    \/ UnsatCore

Spec == Init /\ [][Next]_vars

\* runs in which m_lim.inc() never answers false and the client uses no scopes
NextUnlimited ==
    \/ AddVar
    \/ \E sc \in Asserts : Add(sc)
    \/ CheckSat
    \/ StepUnsat
    \/ StepResolve
    \/ StepPropagate
    \/ StepDecide
    \/ StepSat

\* a pass of kind k through the loop of check_sat is possible
PassEnabled(k) == pc = "running" /\ LoopStep(St) = k

\* A check_sat that has been entered keeps taking passes through its loop (a
\* sequential program goes on to its next statement): weak fairness of every
\* pass; for propagate and resolve_conflict it is written out as
\* []<>~ENABLED \/ []<><<A>>_vars, with ENABLED being PassEnabled.
LoopIsFair ==
    /\ WF_vars(StepUnsat)
    /\ WF_vars(StepDecide)
    /\ WF_vars(StepSat)
    /\ []<>(~PassEnabled("propagate")) \/ []<><<StepPropagate>>_vars
    /\ []<>(~PassEnabled("resolve")) \/ []<><<StepResolve>>_vars

SpecUnlimited == Init /\ [][NextUnlimited]_vars /\ LoopIsFair

\* runs of a client that declares up to three variables and asserts
\* constraints over all three, without scopes
NextWide ==
    \/ AddVarWide
    \/ \E sc \in AssertsWide : Add(sc)
    \/ CheckSat
    \/ StepUnknown
    \/ StepUnsat
    \/ StepResolve
    \/ StepPropagate
    \/ StepDecide
    \/ StepSat

SpecWide == Init /\ [][NextWide]_vars

\* ------------------------------------------------------ forbidden intervals
FiModulus == 2 ^ FiWidth
FiValues  == 0 .. (FiModulus - 1)

\* eval_interval::currently_contains: the half-open modular interval [lo, hi)
CurrentlyContains(I, val) ==
    IF I.lo < I.hi THEN I.lo <= val /\ val < I.hi
    ELSE val < I.hi \/ val >= I.lo

\* eval_interval::current_len
CurrentLen(I) == (I.hi - I.lo) % FiModulus

\* the intervals explain() records: neither empty nor full
ProperIntervals == { I \in [lo : FiValues, hi : FiValues] : I.lo # I.hi }

\* a choice that starts from the last record, whatever its length
LongestILast(records) == Len(records)

\* longest_i of explain(): the first record of greatest length
LongestI(records) ==
    CHOOSE i \in 1 .. Len(records) :
        /\ \A j \in 1 .. Len(records) : CurrentLen(records[j]) <= CurrentLen(records[i])
        /\ \A j \in 1 .. (i - 1) : CurrentLen(records[j]) < CurrentLen(records[i])

\* extent of record i beyond the baseline
Extent(records, i, baseline) == (records[i].hi - baseline) % FiModulus

\* a selection that overlooks the records that start at the baseline
FurthestInside(records, baseline) ==
    LET cand == { i \in 1 .. Len(records) :
                     /\ CurrentlyContains(records[i], baseline)
                     /\ records[i].lo # baseline }
    IN  IF cand = {} THEN 0
        ELSE CHOOSE i \in cand :
                \A j \in cand :
                    \/ Extent(records, i, baseline) > Extent(records, j, baseline)
                    \/ Extent(records, i, baseline) = Extent(records, j, baseline) /\ i >= j

\* the inner loop, i = size-1 .. 0: the record containing the baseline whose hi
\* is furthest away; a later (lower) index replaces the best only if strictly
\* further; 0 stands for UINT_MAX
Furthest(records, baseline) ==
    LET cand == { i \in 1 .. Len(records) :
                     /\ CurrentlyContains(records[i], baseline)
                     /\ Extent(records, i, baseline) > 0 }
    IN  IF cand = {} THEN 0
        ELSE CHOOSE i \in cand :
                \A j \in cand :
                    \/ Extent(records, i, baseline) > Extent(records, j, baseline)
                    \/ Extent(records, i, baseline) = Extent(records, j, baseline) /\ i >= j

\* a closing step that never appends the longest interval
CoverCloseNoLongest(records, longest_i, baseline, seq) ==
    [ok |-> TRUE, seq |-> seq, closed |-> FALSE, cut |-> FALSE]

\* after the loop: the longest interval closes the sequence unless the first
\* interval of the sequence already contains the baseline ('closed' tells which)
CoverClose(records, longest_i, baseline, seq) ==
    IF ~CurrentlyContains(records[seq[1]], baseline)
    THEN [ok |-> TRUE, seq |-> Append(seq, longest_i), closed |-> TRUE, cut |-> FALSE]
    ELSE [ok |-> TRUE, seq |-> seq, closed |-> FALSE, cut |-> FALSE]

\* the while loop of find_covering_sequence; the loop has no bound of its own,
\* the evaluation is cut off ('cut') once it has run more often than there are
\* records
RECURSIVE CoverLoop(_, _, _, _)
CoverLoop(records, longest_i, baseline, seq) ==
    IF CurrentlyContains(records[longest_i], baseline)
    THEN CoverClose(records, longest_i, baseline, seq)
    ELSE IF Furthest(records, baseline) = 0
    THEN [ok |-> FALSE, seq |-> seq, closed |-> FALSE, cut |-> FALSE]
    ELSE IF Len(seq) > Len(records)
    THEN [ok |-> FALSE, seq |-> seq, closed |-> FALSE, cut |-> TRUE]
    ELSE CoverLoop(records, longest_i, records[Furthest(records, baseline)].hi,
                   Append(seq, Furthest(records, baseline)))

\* find_covering_sequence(records, longest_i, modulus, out_seq)
FindCoveringSequence(records, longest_i) ==
    CoverLoop(records, longest_i, records[longest_i].hi, <<>>)

\* the record lists explain() can hand over
CoverInputs == UNION { [1 .. n -> ProperIntervals] : n \in 1 .. MaxRecords }

CoverInit ==
    /\ SolverInit
    /\ \E records \in CoverInputs :
          fi = [phase |-> "called", records |-> records, longest_i |-> LongestI(records),
                ok |-> FALSE, seq |-> <<>>, closed |-> FALSE, cut |-> FALSE]

FindCovering ==
    /\ fi.phase = "called"
    /\ fi' = [fi EXCEPT !.phase = "returned",
                        !.ok  = FindCoveringSequence(fi.records, fi.longest_i).ok,
                        !.seq = FindCoveringSequence(fi.records, fi.longest_i).seq,
                        !.closed = FindCoveringSequence(fi.records, fi.longest_i).closed,
                        !.cut = FindCoveringSequence(fi.records, fi.longest_i).cut]
    /\ UNCHANGED << pc, result, solverVars, m_stats, hist, undo >>

NextCover == FindCovering

SpecCover == CoverInit /\ [][NextCover]_vars

\* ------------------------------------------------------ forbidden_intervals::explain
\* What forbidden_interval(s, v, interval, neg_cond) gives for one conflicting
\* constraint: has = its return value, the interval (full, or [lo, hi) with
\* lo = hi when currently empty), cond = a side condition neg_cond was produced,
\* level = storage level of the constraint.  The constraint is known by its
\* position in the conflict, and its dependency is the leaf of that position.
BoundValues == { val \in FiValues : val % 2 = 0 }

Outcomes ==
    { [has |-> FALSE, full |-> FALSE, lo |-> 0, hi |-> 0, cond |-> FALSE, level |-> 0] }
    \cup [has : {TRUE}, full : {TRUE}, lo : {0}, hi : {0}, cond : BOOLEAN,
          level : 0 .. MaxLemmaLevel]
    \cup [has : {TRUE}, full : {FALSE}, lo : BoundValues, hi : BoundValues, cond : BOOLEAN,
          level : 0 .. MaxLemmaLevel]

\* literals of the lemma: the negated blit of a source constraint, the positive
\* literal of its neg_cond, and the positive literal of the constraint
\* ult(sign, hi_a - lo_b, hi_b - lo_b) built for the sources a, b
SrcLit(a)        == [kind |-> "src", a |-> a, b |-> 0, sign |-> "none", neg |-> TRUE]
NegCondLit(a)    == [kind |-> "neg_cond", a |-> a, b |-> 0, sign |-> "none", neg |-> FALSE]
UltLit(sign, a, b) == [kind |-> "ult", a |-> a, b |-> b, sign |-> sign, neg |-> FALSE]

NoLemma == [ok |-> FALSE, lits |-> <<>>, level |-> 0, dep |-> {}]

\* the loop over the conflict: records, has_full, longest_i (0 for UINT_MAX)
RECURSIVE ScanConflict(_, _, _, _, _)
ScanConflict(conflict, k, records, longest_i, longest_len) ==
    IF k > Len(conflict)
    THEN [records |-> records, has_full |-> FALSE, longest_i |-> longest_i]
    ELSE LET c   == conflict[k]
             rec == [lo |-> c.lo, hi |-> c.hi, full |-> c.full, cond |-> c.cond,
                     level |-> c.level, src |-> k]
         IN  IF ~c.has \/ (~c.full /\ c.lo = c.hi)
             THEN ScanConflict(conflict, k + 1, records, longest_i, longest_len)
             ELSE IF c.full
             THEN [records |-> Append(records, rec), has_full |-> TRUE,
                   longest_i |-> longest_i]
             ELSE IF CurrentLen(c) > longest_len
             THEN ScanConflict(conflict, k + 1, Append(records, rec),
                               Len(records) + 1, CurrentLen(c))
             ELSE ScanConflict(conflict, k + 1, Append(records, rec),
                               longest_i, longest_len)

\* a lemma for the full interval that takes the highest level of all records
FullLemmaMaxLevel(records) ==
    [ok |-> TRUE,
     lits |-> <<SrcLit(Last(records).src)>>
              \o (IF Last(records).cond THEN <<NegCondLit(Last(records).src)>> ELSE <<>>),
     level |-> CHOOSE l \in { records[i].level : i \in 1 .. Len(records) } :
                  \A i \in 1 .. Len(records) : records[i].level <= l,
     dep |-> {Last(records).src}]

\* the has_full branch: full_record = records.back()
FullLemma(records) ==
    [ok |-> TRUE,
     lits |-> <<SrcLit(Last(records).src)>>
              \o (IF Last(records).cond THEN <<NegCondLit(Last(records).src)>> ELSE <<>>),
     level |-> Last(records).level,
     dep |-> {Last(records).src}]

\* the second loop, seq_i = size-1 .. 0: interval constraint, then side condition
RECURSIVE PairLits(_, _, _)
PairLits(records, seq, seq_i) ==
    IF seq_i = 0 THEN <<>>
    ELSE LET i      == seq[seq_i]
             next_i == seq[(seq_i % Len(seq)) + 1]
         IN  <<UltLit("neg_t", records[i].src, records[next_i].src)>>
             \o (IF records[i].cond THEN <<NegCondLit(records[i].src)>> ELSE <<>>)
             \o PairLits(records, seq, seq_i - 1)

\* a second loop that leaves out the pair of the last and the first interval
PairLitsOpen(records, seq, seq_i) ==
    IF seq_i = Len(seq) /\ seq_i > 0
    THEN (IF records[seq[seq_i]].cond THEN <<NegCondLit(records[seq[seq_i]].src)>> ELSE <<>>)
         \o PairLits(records, seq, seq_i - 1)
    ELSE PairLits(records, seq, seq_i)

PairLitsOf(records, seq, seq_i) == PairLits(records, seq, seq_i)

\* the lemma of a covering sequence
CoverLemma(records, seq) ==
    [ok |-> TRUE,
     lits |-> [k \in 1 .. Len(seq) |-> SrcLit(records[seq[k]].src)]
              \o PairLitsOf(records, seq, Len(seq)),
     level |-> CHOOSE l \in { records[seq[k]].level : k \in 1 .. Len(seq) } \cup {0} :
                  \A k \in 1 .. Len(seq) : records[seq[k]].level <= l,
     dep |-> { records[seq[k]].src : k \in 1 .. Len(seq) }]

ExplainRecords(sc) ==
    IF sc.has_full THEN FullLemma(sc.records)
    ELSE IF sc.records = <<>> THEN NoLemma
    ELSE IF ~FindCoveringSequence(sc.records, sc.longest_i).ok THEN NoLemma
    ELSE CoverLemma(sc.records, FindCoveringSequence(sc.records, sc.longest_i).seq)

\* forbidden_intervals::explain(s, conflict, v, out_lemma)
Explain(conflict) == ExplainRecords(ScanConflict(conflict, 1, <<>>, 0, 0))

\* the locals 'records' and 'seq' of explain when it returns
ExplainSeq(conflict) ==
    LET sc == ScanConflict(conflict, 1, <<>>, 0, 0)
    IN  [records |-> sc.records,
         seq |-> IF sc.has_full \/ sc.records = <<>> THEN <<>>
                 ELSE FindCoveringSequence(sc.records, sc.longest_i).seq]

ExplainInit ==
    /\ SolverInit
    /\ \E conflict \in UNION { [1 .. n -> Outcomes] : n \in 1 .. MaxConflict } :
          fi = [phase |-> "explain", conflict |-> conflict, lemma |-> NoLemma,
                records |-> <<>>, seq |-> <<>>]

ExplainCall ==
    /\ fi.phase = "explain"
    /\ fi' = [fi EXCEPT !.phase = "explained", !.lemma = Explain(fi.conflict),
                        !.records = ExplainSeq(fi.conflict).records,
                        !.seq = ExplainSeq(fi.conflict).seq]
    /\ UNCHANGED << pc, result, solverVars, m_stats, hist, undo >>

NextExplain == ExplainCall

SpecExplain == ExplainInit /\ [][NextExplain]_vars

\* ------------------------------------------------------------ properties
\* value of a polynomial / truth of a signed constraint under a total assignment
EvalPoly(p, a) == (p.k + Coef(p, 1) * a[1] + Coef(p, 2) * a[2]) % Modulus
Holds(sc, a) ==
    sc.pos = IF Objects[sc.c].kind = "eq" THEN EvalPoly(Objects[sc.c].lhs, a) = 0
             ELSE EvalPoly(Objects[sc.c].lhs, a) <= EvalPoly(Objects[sc.c].rhs, a)

\* the assertions of the open scopes, as the client made them, have a model
Satisfiable ==
    \E a \in [1 .. 2 -> Values] :
        \A i \in 1 .. Len(hist.asserted) : Holds(hist.asserted[i].sc, a)

Returned(r) == pc = "idle" /\ hist.op = "step" /\ hist.step = r

\* C1: whenever check_sat returns sat, every integer variable is assigned and
\* every entry of the original-constraint list is true under the assignment.
C1_SatIsModel ==
    Returned("sat") =>
        /\ \A v \in 1 .. Len(m_value) : m_justification[v].kind # "unassigned"
        /\ \A i \in 1 .. Len(m_original) : IsCurrentlyTrue(St, m_original[i])

\* C2: check_sat returns unsat only if the constraints asserted in the current
\* scopes have no model.
C2_UnsatIsUnsat == Returned("unsat") => ~Satisfiable

C5_PushPopIsNoop == hist.op = "pushpop" => Obs(St) = hist.snap[1]

\* C6: after pop(n) the base level is that of the innermost remaining scope
\* (0 if none), the n popped scopes are gone, and the solver is at base level.
C6_ScopesAreLifo ==
    (hist.op \in {"pop", "pushpop"} /\ pc = "idle") =>
        /\ Len(m_base_levels) = Len(hist.scopes)
        /\ BaseLevel(St) = (IF hist.scopes = <<>> THEN 0 ELSE Last(hist.scopes))
        /\ AtBaseLevel(St)

\* C7: after resolve_conflict the level is not below base_level(), and the
\* backjump of report_unsat ends at the base level (it does not run off the trail).
C7_StaysAtOrAboveBase ==
    (hist.op = "step" /\ hist.step = "resolve") =>
        pc # "ub" /\ m_level >= BaseLevel(St)

\* number of undo operations that are pending
PendingUndo ==
    Len(m_qhead_trail) + Len(m_cjust_trail) + Len(m_viable_trail) + Len(m_search)
    + m_level + Len(m_value)

\* C8: the trail holds one entry per pending undo operation, and after popping
\* back to level L the level counter, integer justifications, search stack,
\* cjust lists and qhead (and, popping everything, the whole state) are what
\* they were when level L+1 was pushed.
C8_UndoIsExact ==
    /\ pc \in {"idle", "running"} => Len(m_trail) = PendingUndo
    /\ undo.popped # <<>> =>
          /\ undo.popped[1].level /\ undo.popped[1].just /\ undo.popped[1].search
          /\ undo.popped[1].cjust /\ undo.popped[1].qhead
          /\ m_level = 0 => undo.popped[1].viable

\* C9: every refinement of a viable set has its snapshot logged on the trail,
\* and popping the level of the refinement gives back the previous set.
C9_ViableIsRestored ==
    /\ Len(m_viable_trail) = Cardinality({ i \in 1 .. Len(m_trail) : m_trail[i] = "viable_i" })
    /\ undo.popped # <<>> => undo.popped[1].viable

\* C10: for every assigned integer variable v, value(v) is in V_v.
C10_ValueIsViable ==
    \A v \in 1 .. Len(m_value) :
        m_justification[v].kind # "unassigned" => m_value[v] \in m_viable[v]

\* a variable was decided after its viable set had been narrowed
C10_Witness ==
    \E v \in 1 .. Len(m_value) :
        /\ m_justification[v].kind = "decision"
        /\ m_viable[v] # Values /\ m_value[v] \in m_viable[v] /\ m_value[v] # 0

\* number of occurrences of sc on the watch list of v
WatchCount(v, sc) == Cardinality({ i \in 1 .. Len(m_watch[v]) : m_watch[v][i] = sc })

\* sc has been activated: propagate() has taken its literal from the search stack
Activated(sc) == \E i \in 1 .. m_qhead : i <= Len(m_search) /\ m_search[i] = ItemLit(sc)

\* the signed constraints of m_original and m_redundant
Listed == Range(m_original) \cup Range(m_redundant)

\* C11: at the end of propagate() every activated constraint of the original
\* and redundant lists is watched by exactly min(2, number of its variables)
\* variables (none when it is ground) and occurs at most once on a watch list.
C11_WatchInvariant ==
    (pc = "running" /\ hist.op = "step" /\ hist.step = "propagate") =>
        \A sc \in Listed :
            Activated(sc) =>
                /\ \A v \in 1 .. Len(m_watch) : WatchCount(v, sc) <= 1
                /\ Cardinality({ v \in 1 .. Len(m_watch) : WatchCount(v, sc) = 1 })
                     = (IF Len(m_constraints[sc.c].vars) < 2
                        THEN Len(m_constraints[sc.c].vars) ELSE 2)

\* the literals that are assigned: those on the search stack
AssignedLits == { m_search[i].lit : i \in { k \in 1 .. Len(m_search) : ~m_search[k].isvar } }

Referenced ==
    { sc.c : sc \in Listed }
    \cup UNION { { cl.lits[j].c : j \in 1 .. Len(cl.lits) } : cl \in Range(m_redundant_clauses) }
    \cup UNION { { m_watch[v][i].c : i \in 1 .. Len(m_watch[v]) } : v \in 1 .. Len(m_watch) }
    \cup UNION { { cl.lits[j].c : j \in 1 .. Len(cl.lits) } :
                 cl \in { m_constraints[c].reason : c \in { k \in ObjIds : m_constraints[k].val # "undef" } } }
    \cup UNION { { cl.lits[j].c : j \in 1 .. Len(cl.lits) } :
                 cl \in { m_constraints[c].lemma : c \in { k \in ObjIds : m_constraints[k].val # "undef" } } }

\* the clauses the solver refers to
ReferencedClauses ==
    Range(m_redundant_clauses)
    \cup { m_constraints[c].reason : c \in { k \in ObjIds : m_constraints[k].val # "undef" } }
    \cup { m_constraints[c].lemma : c \in { k \in ObjIds : m_constraints[k].val # "undef" } }

C15_SameEqualityIsShared ==
    \A i, j \in 1 .. Len(hist.asserted) :
        (/\ hist.asserted[i].sc = hist.asserted[j].sc
         /\ hist.asserted[i].sc.pos
         /\ Objects[hist.asserted[i].sc.c].kind = "eq") =>
            hist.asserted[i].obj = hist.asserted[j].obj

\* C16: with a disequality p # 0 among the assertions, check_sat answers sat
\* exactly when some assignment satisfies the other assertions and p # 0.
C16_DiseqIsNegatedEq ==
    (/\ \E i \in 1 .. Len(hist.asserted) :
            /\ Objects[hist.asserted[i].sc.c].kind = "eq"
            /\ ~hist.asserted[i].sc.pos
     /\ (Returned("sat") \/ Returned("unsat"))) =>
        (Returned("sat") <=> Satisfiable)

\* the constraint asserted by the add_* call that has just returned
LastAsserted == hist.asserted[Len(hist.asserted)].sc

\* C17: when add_* inserts a constraint whose operands are constants, it
\* returns with a conflict set exactly when the constant truth value
\* contradicts the sign; when it agrees, no conflict is set and no viable set
\* changes.
C17_GroundConflictOnInsertion ==
    [][ (/\ pc = "idle" /\ ~IsConflict(St)
         /\ pc' = "idle" /\ hist'.op = "add"
         /\ ObjVars(LastAsserted'.c) = {}) =>
          /\ IsConflict(St)' <=> ~Holds(LastAsserted', [v \in 1 .. 2 |-> 0])
          /\ Holds(LastAsserted', [v \in 1 .. 2 |-> 0]) => m_viable' = m_viable
      ]_vars

\* one variable v, the single assertion v + 1 = 0 made before the first
\* check_sat, no scopes
OnlyVPlusOneIsZero ==
    /\ hist.vars = 1 /\ hist.adds = 1 /\ hist.pushes = 0
    /\ Len(hist.asserted) = 1 /\ hist.asserted[1].sc = SC(5, TRUE)
    /\ hist.asserted[1].after = 0

\* C18: with v + 1 = 0 as the only assertion, check_sat answers sat with
\* v = 2^w - 1, assigned by propagation, and the decision counter stays 0.
C18_LinearEqualityPropagates ==
    OnlyVPlusOneIsZero =>
        /\ pc \notin {"aborted", "ub"}
        /\ ~Returned("unsat")
        /\ m_stats.decisions = 0
        /\ Returned("sat") =>
              /\ m_value[1] = Modulus - 1
              /\ m_justification[1].kind = "propagation"

C18_Witness == OnlyVPlusOneIsZero /\ Returned("sat") /\ hist.checks = 1

\* C19: after an unsat answer, unsat_core returns to the client (with the
\* dependency tags of the final conflict).
C19_UnsatCoreReturns == hist.op = "unsat_core" => pc = "idle"

\* C20: no step of check_sat throws or aborts: each one leaves the solver
\* running or returns sat, unsat or unknown.
C20_CheckSatNeverAborts ==
    hist.op \in {"check", "step"} => pc \in {"idle", "running"}

\* what decide(v) must leave behind, by the size of the viable set of v
DecidedAsClaimed(v) ==
    IF m_viable[v] = {}
    THEN /\ m_conflict'.cvar = v
         /\ m_value' = m_value /\ m_justification' = m_justification
         /\ m_search' = m_search /\ m_level' = m_level
    ELSE IF Cardinality(m_viable[v]) = 1
    THEN /\ m_value'[v] \in m_viable[v]
         /\ m_justification'[v] = Propagation(m_level)
         /\ m_level' = m_level
         /\ v \notin m_free_vars'
    ELSE /\ m_level' = m_level + 1
         /\ m_value'[v] \in m_viable[v]
         /\ m_justification'[v] = Decision(m_level + 1)
         /\ v \notin m_free_vars'

C22_RevertedDecisionIsRetried ==
    \A e \in undo.excl :
        /\ pc \in {"idle", "running"}
        /\ e.lvl <= m_level
        /\ e.val \notin m_viable[e.var]
        /\ m_justification[e.var].kind # "unassigned" => m_value[e.var] # e.val
        /\ ~IsConflict(St) => m_justification[e.var].kind # "unassigned"

\* the lemma that the step has just stored
LearnedNow == m_redundant_clauses'[Len(m_redundant_clauses')]

\* C24: learning a lemma stores it and then branches on one of its literals:
\* the literal is assigned with the lemma as its reason (propagation, at the
\* current level) when it is the last suitable one, and as a decision from the
\* lemma at a new level otherwise.
C24_LearnedLemmaBranches ==
    [][ (/\ hist'.op = "step" /\ hist'.step = "resolve"
         /\ Len(m_redundant_clauses') = Len(m_redundant_clauses) + 1) =>
          /\ pc' = "running"
          /\ \E j \in 1 .. Len(LearnedNow.lits) :
                LET lit == LearnedNow.lits[j]
                IN  /\ m_constraints[lit.c].val = "undef"
                    /\ m_constraints'[lit.c].val = (IF lit.pos THEN "true" ELSE "false")
                    /\ \/ /\ m_constraints'[lit.c].reason = LearnedNow
                          /\ m_constraints'[lit.c].blevel = m_level'
                       \/ /\ m_constraints'[lit.c].reason = NoClause
                          /\ m_constraints'[lit.c].lemma = LearnedNow
                          /\ m_constraints'[lit.c].blevel = m_level'
      ]_vars

\* number of entries of the search stack that hold the literal
OnSearch(search, lit) ==
    Cardinality({ i \in 1 .. Len(search) : ~search[i].isvar /\ search[i].lit = lit })

C26_WatchIsRepointed ==
    (pc = "running" /\ hist.op = "step" /\ hist.step = "propagate") =>
        \A sc \in Listed :
            (Activated(sc) /\ Len(m_constraints[sc.c].vars) >= 2) =>
                /\ WatchCount(m_constraints[sc.c].vars[1], sc) = 1
                /\ WatchCount(m_constraints[sc.c].vars[2], sc) = 1

\* the calls propagate(v) of one run of solver::propagate(), each with the state
\* it starts from
RECURSIVE PropagateCalls(_)
PropagateCalls(s) ==
    IF ~CanPropagate(s) THEN <<>>
    ELSE LET item == s.search[s.qhead + 1]
             s1 == [s EXCEPT !.qhead = @ + 1]
         IN  IF item.isvar
             THEN <<[st |-> s1, v |-> item.var]>> \o PropagateCalls(PropagateVar(s1, item.var))
             ELSE PropagateCalls(PropagateLit(s1, item.lit))

\* the state after propagate(v) had only the first k entries of watch[v] to visit
VisitPrefix(s, v, k) == PropagateVar([s EXCEPT !.watch[v] = SubSeq(@, 1, k)], v)

\* the number of entries propagate(v) visits: up to the first one that leaves a
\* conflict behind
Visited(s, v) ==
    LET stops == { k \in 0 .. Len(s.watch[v]) : IsConflict(VisitPrefix(s, v, k)) }
    IN  IF stops = {} THEN Len(s.watch[v])
        ELSE CHOOSE k \in stops : \A m \in stops : k <= m

CompactedAsClaimed(s, v) ==
    LET w  == s.watch[v]
        s2 == PropagateVar(s, v)
        w2 == s2.watch[v]
        n  == Visited(s, v)
    IN  \* the entries are visited in list order up to the first conflict
        /\ [s2 EXCEPT !.watch = s.watch] = [VisitPrefix(s, v, n) EXCEPT !.watch = s.watch]
        \* what is retained is retained once and in the order of the list
        /\ w2 = SelectSeq(w, LAMBDA e : e \in Range(w2))
        \* an entry not yet visited stays
        /\ \A i \in n + 1 .. Len(w) :
              w[i] \in Range(w2) /\ s2.cons[w[i].c].vars = s.cons[w[i].c].vars
        \* only an entry that repointed its watch leaves the list
        /\ \A i \in 1 .. n :
              w[i] \notin Range(w2) => s2.cons[w[i].c].vars # s.cons[w[i].c].vars
        \* no other watch list changes
        /\ \A u \in 1 .. Len(s.watch) : u # v => s2.watch[u] = s.watch[u]

\* C27: propagate(v) visits watch[v] in list order and stops at the first
\* conflict; entries not yet visited stay on watch[v], the compaction loses and
\* duplicates nothing, and the retained entries keep their relative order.
C27_CompactionKeepsWatchList ==
    [][ (hist'.op = "step" /\ hist'.step = "propagate") =>
            LET calls == PropagateCalls(PushQhead(EnterIteration(St, TRUE).st))
            IN  \A i \in 1 .. Len(calls) : CompactedAsClaimed(calls[i].st, calls[i].v)
      ]_vars

\* propagate(v) has stopped at a constraint that is not the last of watch[v]:
\* the conflict is that constraint, and the entries behind it are still listed
C27_Witness ==
    /\ pc = "running" /\ hist.op = "step" /\ hist.step = "propagate"
    /\ m_qhead > 0 /\ m_qhead <= Len(m_search) /\ m_search[m_qhead].isvar
    /\ LET w == m_watch[m_search[m_qhead].var]
       IN  \E i \in 1 .. Len(w) - 1 : m_conflict.cs = <<w[i]>>

\* the calls of narrow made by one run of solver::propagate(), each with the
\* state it starts from: one per activated literal, and one per watch-list
\* entry that propagate(v) visits without repointing it
VisitCalls(s, v) ==
    LET vis == { k \in 1 .. Visited(s, v) :
                    ~UlePropagate(VisitPrefix(s, v, k - 1), s.watch[v][k], v).moved }
    IN  [ i \in 1 .. Cardinality(vis) |->
            LET k == SortedSeq(vis)[i]
            IN  [st |-> VisitPrefix(s, v, k - 1), sc |-> s.watch[v][k]] ]

RECURSIVE NarrowCalls(_)
NarrowCalls(s) ==
    IF ~CanPropagate(s) THEN <<>>
    ELSE LET item == s.search[s.qhead + 1]
             s1 == [s EXCEPT !.qhead = @ + 1]
         IN  IF item.isvar
             THEN VisitCalls(s1, item.var) \o NarrowCalls(PropagateVar(s1, item.var))
             ELSE <<[st |-> AddWatch(s1, item.lit), sc |-> item.lit]>>
                      \o NarrowCalls(PropagateLit(s1, item.lit))

\* the value of polynomial p when x is k and the other variables have the
\* values of the assignment
EvalAt(s, p, x, k) ==
    LET RECURSIVE Sum(_)
        Sum(S) == IF S = {} THEN 0
                  ELSE LET v == CHOOSE u \in S : TRUE
                       IN  Coef(p, v) * (IF v = x THEN k ELSE s.value[v]) + Sum(S \ {v})
    IN  (p.k + Sum(PolyVars(p))) % Modulus

\* the values of x under which the signed constraint holds
TruthSet(s, sc, x) ==
    { k \in Values : sc.pos = (EvalAt(s, Obj(s, sc).lhs, x, k) <= EvalAt(s, Obj(s, sc).rhs, x, k)) }

UnassignedIn(s, sc) ==
    { v \in PolyVars(Obj(s, sc).lhs) \cup PolyVars(Obj(s, sc).rhs) : ~IsAssigned(s, v) }

NarrowedAsClaimed(s, sc, x) ==
    LET s2 == Narrow(s, sc)
    IN  /\ s2.viable[x] = s.viable[x] \cap TruthSet(s, sc, x)
        /\ s2.cjust[x] = Append(s.cjust[x], sc)
        /\ s2.viable[x] = {} => s2.conflict.cvar = x /\ ~IsAssigned(s2, x)
        /\ \A k \in Values :
              s2.viable[x] = {k} =>
                  /\ s2.value[x] = k /\ s2.just[x] = Propagation(s.level)
                  /\ s2.search = Append(s.search, ItemVar(x, k))
                  /\ ~IsConflict(s2)
        /\ Cardinality(s2.viable[x]) > 1 => s2.search = s.search /\ ~IsConflict(s2)

\* C28: narrowing an active ule constraint that is unary in an unassigned x
\* intersects V_x with the values of x under which the signed constraint holds
\* modulo 2^w, appends the constraint to cjust[x], sets a conflict on x when
\* nothing is left and propagates x := k when only k is left.
C28_UnaryNarrowing ==
    [][ (hist'.op = "step" /\ hist'.step = "propagate") =>
            LET calls == NarrowCalls(PushQhead(EnterIteration(St, TRUE).st))
            IN  \A i \in 1 .. Len(calls) :
                   \A x \in UnassignedIn(calls[i].st, calls[i].sc) :
                      ( /\ Obj(calls[i].st, calls[i].sc).kind = "ule"
                        /\ UnassignedIn(calls[i].st, calls[i].sc) = {x} )
                      => NarrowedAsClaimed(calls[i].st, calls[i].sc, x)
      ]_vars

\* a propagation has narrowed a ule constraint whose other variables are all
\* assigned: it is the last entry of cjust[x], V_x is down to one value and x
\* has been assigned that value by propagation at the current level
C28_Witness ==
    /\ pc = "running" /\ hist.op = "step" /\ hist.step = "propagate"
    /\ \E x \in 1 .. Len(m_viable) :
          /\ m_cjust[x] # <<>>
          /\ Obj(St, Last(m_cjust[x])).kind = "ule"
          /\ UnassignedIn(St, Last(m_cjust[x])) = {}
          /\ x \in PolyVars(Obj(St, Last(m_cjust[x])).lhs)
                     \cup PolyVars(Obj(St, Last(m_cjust[x])).rhs)
          /\ m_viable[x] = {m_value[x]}
          /\ m_justification[x] = Propagation(m_level)
          /\ Last(m_search) = ItemVar(x, m_value[x])

\* value resolution of the conflict variable fails: its cjust constraints are
\* brought into the core and polynomial superposition finds no pair to resolve
ValueResolutionFails(s) ==
    /\ s.conflict.cvar # 0
    /\ TryExplain1(s, s.conflict.cvar,
                   CoreInsertAll(s.conflict, s.cjust[s.conflict.cvar], 1)) = "l_false"

\* C29: once value resolution fails in a conflict, the bailout is raised, and
\* raised once (the flag stays set, so later variables only add their cjust
\* constraints); the walk ends in a decision reversion, which resets the core
\* and the flag with it, or in unsat at the base level, and check_sat goes on
\* without a bailout state.
C29_BailoutEndsInReversion ==
    [][ (hist'.op = "step" /\ hist'.step = "resolve" /\ ValueResolutionFails(St)) =>
            /\ m_stats'.bailouts = m_stats.bailouts + 1
            /\ pc' = "running"
            /\ \/ ~m_conflict'.bailout /\ m_level' < m_level
               \/ IsConflict(St)' /\ AtBaseLevel(St)'
      ]_vars

\* C30: when find_covering_sequence returns true, the intervals of the returned
\* sequence cover every value of Z/2^w, and each interval contains the hi of the
\* one before it, the first containing the hi of the last.
C30_CoveringSequence ==
    (fi.phase = "returned" /\ fi.ok) =>
        /\ \A val \in FiValues :
              \E k \in 1 .. Len(fi.seq) : CurrentlyContains(fi.records[fi.seq[k]], val)
        /\ \A k \in 1 .. Len(fi.seq) :
              CurrentlyContains(fi.records[fi.seq[k]],
                                fi.records[fi.seq[IF k = 1 THEN Len(fi.seq) ELSE k - 1]].hi)

\* a covering of three intervals closed by the longest one
C30_Witness ==
    /\ fi.phase = "returned" /\ fi.ok
    /\ Len(fi.seq) = 3
    /\ fi.seq[3] = fi.longest_i

\* the baseline at which find_covering_sequence stopped
LastBaseline ==
    IF fi.seq = <<>> THEN fi.records[fi.longest_i].hi ELSE fi.records[Last(fi.seq)].hi

Covered(val) == \E i \in 1 .. Len(fi.records) : CurrentlyContains(fi.records[i], val)

\* C31: find_covering_sequence returns false only when the baseline it stopped
\* at lies in none of the recorded intervals; when the recorded intervals
\* jointly cover Z/2^w it returns true.
C31_FailureMeansHole ==
    fi.phase = "returned" =>
        /\ ~fi.ok => ~Covered(LastBaseline)
        /\ (\A val \in FiValues : Covered(val)) => fi.ok

\* the search for a covering advanced over one interval at least and then met
\* a value that no recorded interval contains
C31_Witness ==
    /\ fi.phase = "returned" /\ ~fi.ok
    /\ fi.seq # <<>>
    /\ ~Covered(LastBaseline)

\* the intervals the loop of find_covering_sequence chose, in order
Chosen == IF fi.closed THEN Front(fi.seq) ELSE fi.seq

\* the baseline after k passes of the loop
BaselineAt(k) == IF k = 0 THEN fi.records[fi.longest_i].hi ELSE fi.records[Chosen[k]].hi

\* how far the baseline has moved after k passes
RECURSIVE Advance(_)
Advance(k) ==
    IF k = 0 THEN 0
    ELSE Advance(k - 1) + ((BaselineAt(k) - BaselineAt(k - 1)) % FiModulus)

\* C32: started from the longest interval, find_covering_sequence terminates:
\* the baseline advances strictly with each chosen interval, stays outside the
\* longest interval until the last pass without going around it, and the loop
\* runs at most as many times as there are records.
C32_CoveringTerminates ==
    fi.phase = "returned" =>
        /\ ~fi.cut
        /\ Len(Chosen) <= Len(fi.records)
        /\ \A k \in 1 .. Len(Chosen) : BaselineAt(k) # BaselineAt(k - 1)
        /\ Advance(Len(Chosen)) < FiModulus
        /\ \A k \in 0 .. (Len(Chosen) - 1) :
              ~CurrentlyContains(fi.records[fi.longest_i], BaselineAt(k))
        /\ fi.ok => CurrentlyContains(fi.records[fi.longest_i], BaselineAt(Len(Chosen)))

\* the baseline came back into the longest interval after two passes
C32_Witness ==
    /\ fi.phase = "returned" /\ fi.ok
    /\ Len(Chosen) = 2
    /\ CurrentlyContains(fi.records[fi.longest_i], BaselineAt(2))
    /\ ~CurrentlyContains(fi.records[fi.longest_i], BaselineAt(1))

\* the conflicting constraints that yield a full forbidden interval
FullSources ==
    { k \in 1 .. Len(fi.conflict) : fi.conflict[k].has /\ fi.conflict[k].full }

FirstFull == CHOOSE k \in FullSources : \A m \in FullSources : k <= m

\* C33: when a conflicting constraint yields a full forbidden interval, the
\* lemma is the negation of that source constraint and, if it has one, its
\* negated side condition, at the storage level and with the dependency of
\* that source; nothing of the other conflicting constraints enters it.
C33_FullIntervalLemma ==
    (fi.phase = "explained" /\ FullSources # {}) =>
        /\ fi.lemma.ok
        /\ fi.lemma.lits = <<SrcLit(FirstFull)>>
                           \o (IF fi.conflict[FirstFull].cond
                               THEN <<NegCondLit(FirstFull)>> ELSE <<>>)
        /\ fi.lemma.level = fi.conflict[FirstFull].level
        /\ fi.lemma.dep = {FirstFull}

\* the full interval came after a proper one of a higher storage level, and it
\* has a side condition
C33_Witness ==
    /\ fi.phase = "explained" /\ FullSources # {}
    /\ FirstFull > 1
    /\ fi.conflict[FirstFull].cond
    /\ fi.conflict[FirstFull].level = 0
    /\ \E k \in 1 .. (FirstFull - 1) :
          /\ fi.conflict[k].has /\ fi.conflict[k].lo # fi.conflict[k].hi
          /\ fi.conflict[k].level = 1
    /\ Len(fi.lemma.lits) = 2

\* the records explain() collected, and the covering sequence it found
Collected == fi.records

CoveringSeq == fi.seq

\* the sources of the sequence, and the cyclically adjacent pairs of sources
SeqSources == { Collected[CoveringSeq[k]].src : k \in 1 .. Len(CoveringSeq) }

SeqPairs ==
    { << Collected[CoveringSeq[k]].src,
         Collected[CoveringSeq[(k % Len(CoveringSeq)) + 1]].src >> : k \in 1 .. Len(CoveringSeq) }

LitsOfKind(kind) ==
    { i \in 1 .. Len(fi.lemma.lits) : fi.lemma.lits[i].kind = kind }

\* hi_a - lo_b < hi_b - lo_b  modulo 2^w, on the current bounds of sources a, b
UpperIsInside(a, b) ==
    ((fi.conflict[a].hi - fi.conflict[b].lo) % FiModulus)
        < ((fi.conflict[b].hi - fi.conflict[b].lo) % FiModulus)

\* what the positive literal of ult(sign, hi_a - lo_b, hi_b - lo_b) asserts
Asserted(lit) == (lit.sign = "pos_t") = UpperIsInside(lit.a, lit.b)

\* the literals, the level and the dependency of the lemma of a covering
\* sequence, whatever the interval literals assert
CoverLemmaShape ==
    /\ { fi.lemma.lits[i].a : i \in LitsOfKind("src") } = SeqSources
    /\ Cardinality(LitsOfKind("src")) = Cardinality(SeqSources)
    /\ \A i \in LitsOfKind("src") : fi.lemma.lits[i].neg
    /\ { fi.lemma.lits[i].a : i \in LitsOfKind("neg_cond") }
          = { a \in SeqSources : fi.conflict[a].cond }
    /\ Cardinality(LitsOfKind("neg_cond"))
          = Cardinality({ a \in SeqSources : fi.conflict[a].cond })
    /\ { << fi.lemma.lits[i].a, fi.lemma.lits[i].b >> : i \in LitsOfKind("ult") } = SeqPairs
    /\ Cardinality(LitsOfKind("ult")) = Cardinality(SeqPairs)
    /\ \A a \in SeqSources : fi.conflict[a].level <= fi.lemma.level
    /\ \E a \in SeqSources : fi.conflict[a].level = fi.lemma.level
    /\ fi.lemma.dep = SeqSources

CoverLemmaEmitted == fi.phase = "explained" /\ FullSources = {} /\ fi.lemma.ok

\* C34 as stated: when no interval is full and a covering sequence exists, the
\* lemma holds the negations of the sources of the sequence, their side
\* conditions, and for each cyclically adjacent pair one literal asserting
\* hi_i - lo_{i+1} < hi_{i+1} - lo_{i+1}; its level is the maximum storage level
\* of the sources and its dependency the join of theirs.
C34_CoverLemmaAsStated ==
    CoverLemmaEmitted =>
        /\ CoverLemmaShape
        /\ \A i \in LitsOfKind("ult") :
              Asserted(fi.lemma.lits[i])
                  = UpperIsInside(fi.lemma.lits[i].a, fi.lemma.lits[i].b)

\* C34 (amended): as above, but the literal of each cyclically adjacent pair
\* asserts the negation of hi_i - lo_{i+1} < hi_{i+1} - lo_{i+1}: the lemma is
\* the negation of "the sources hold, the side conditions hold and each upper
\* bound lies in the next interval", so every one of these literals is false on
\* the current bounds.
C34_CoverLemma ==
    CoverLemmaEmitted =>
        /\ CoverLemmaShape
        /\ \A i \in LitsOfKind("ult") :
              /\ Asserted(fi.lemma.lits[i])
                    = ~UpperIsInside(fi.lemma.lits[i].a, fi.lemma.lits[i].b)
              /\ UpperIsInside(fi.lemma.lits[i].a, fi.lemma.lits[i].b)

\* a lemma over a covering sequence of three sources of different storage
\* levels, one of them with a side condition
C34_Witness ==
    /\ CoverLemmaEmitted
    /\ Cardinality(SeqSources) = 3
    /\ Cardinality(LitsOfKind("ult")) = 3
    /\ Cardinality(LitsOfKind("neg_cond")) = 1
    /\ fi.lemma.level = 1
    /\ \E a \in SeqSources : fi.conflict[a].level = 0

C36_TryExplainFaithful ==
    undo.explained.called =>
        /\ undo.explained.ret <=> (undo.explained.r = "l_true")
        /\ (undo.explained.r = "l_false") => ~undo.explained.ret

\* positions of the search stack that assign v
AssignmentsOf(v) ==
    { i \in 1 .. Len(m_search) : m_search[i].isvar /\ m_search[i].var = v }

AssignedVars == { v \in 1 .. Len(m_value) : m_justification[v].kind # "unassigned" }

\* C37: the search stack holds each assigned integer variable exactly once (and
\* no unassigned one), and the free-variable queue holds exactly the unassigned
\* integer variables, so an empty queue means that every variable is assigned.
C37_FreeVarsAreUnassigned ==
    /\ \A v \in 1 .. Len(m_value) :
          Cardinality(AssignmentsOf(v)) = IF v \in AssignedVars THEN 1 ELSE 0
    /\ m_free_vars = (1 .. Len(m_value)) \ AssignedVars
    /\ (m_free_vars = {}) => (AssignedVars = 1 .. Len(m_value))

\* decide found the viable set of its variable empty while another is assigned
C37_Witness ==
    /\ hist.op = "step" /\ hist.step = "decide"
    /\ m_conflict.cvar # 0
    /\ m_conflict.cvar \in m_free_vars
    /\ AssignedVars # {}

\* no integer or boolean assignment is recorded at a level above lvl
NoneAbove(lvl) ==
    /\ \A v \in AssignedVars : m_justification[v].level <= lvl
    /\ \A c \in ObjIds :
          m_constraints[c].val # "undef" => m_constraints[c].blevel <= lvl

\* C38: the justification level of every assigned integer variable and the
\* assignment level of every assigned boolean variable is at most the current
\* level; after pop_levels to level L none recorded above L remains, replayed
\* constraints included.
C38_LevelsBelowCurrent ==
    /\ NoneAbove(m_level)
    /\ \A i \in 1 .. Len(undo.popped) : NoneAbove(undo.popped[i].to)

\* C39: the propagation head never exceeds the size of the search stack, and no
\* item is propagated (its constraint activated and watched) a second time while
\* it stays on the stack, also when a backjump has restored the head.
C39_PropagatedOnce ==
    /\ m_qhead <= Len(m_search)
    /\ ~undo.again

\* C40: with a resource limit that is never exhausted, every check_sat that
\* has been entered eventually returns sat or unsat.
C40_CheckSatReturns ==
    (pc = "running") ~> (pc = "idle" /\ result \in {"sat", "unsat"})

====
